---- MODULE Spec2Model ----
(***************************************************************************)
(* The student-dashboard calendar widget (CalendarManager) of              *)
(* src/frontend/pages/student_dashboard/calendar.js as a state machine.    *)
(*                                                                         *)
(* One step of the model is one run-to-completion task of the browser's    *)
(* single thread: a DOM event (DOMContentLoaded, a click, beforeunload), a *)
(* timer callback, or the continuation of an await once the awaited        *)
(* network promise settles.  An async function runs synchronously up to    *)
(* its first pending await, so everything up to that point belongs to the  *)
(* step that called it.                                                    *)
(***************************************************************************)
EXTENDS Integers, Sequences, FiniteSets, TLC

VARIABLES
    containerPresent,  \* document.getElementById('calendar-container') # null
    phase,             \* position of init(): "unloaded", "status", "statusBody", "ready"
    statusOutcome,     \* how the status request ended: "pending", "ok", "non2xx", "neterr", "badbody"
    calendarStatus,    \* this.calendarStatus
    currentDate,       \* this.currentDate (local calendar date)
    events,            \* this.events
    isLoading,         \* this.isLoading
    refreshInterval,   \* this.refreshInterval (Null or the interval's handle)
    timerActive,       \* the browser still runs the interval
    inflight,          \* fetchCalendarEvents calls suspended at an await, in issue order
    recording,         \* history: whether the order of arrivals is being recorded
    arrived,           \* history: the last 2xx response that arrived, and whether it came late
    shownCount,        \* calls of showNotification so far
    fetchCount,        \* requests sent to the events endpoint so far
    view,              \* what the container shows: "none", "signin", "calendar"
    header,            \* month and year of the rendered calendar header
    grid,              \* month and events the rendered #calendar-grid was built from
    upcoming,          \* events the rendered #upcoming-events was built from
    navListeners,      \* click listeners on each of #prev-month, #next-month, #refresh-calendar
    notifications,     \* the notification element on view (the newest in document.body), if any
    denied,            \* some event fetch was answered with 403
    destroyed,         \* destroy() has run
    nEvent,            \* normalizer: the raw event under inspection
    nStart,            \* normalizer: what getEventStartDate returned for it
    clock,             \* upcoming list: what new Date() returned for each event examined
    listing,           \* upcoming list: what generateUpcomingEvents returned
    tz,                \* grid: hours the viewer's local time is ahead of UTC
    cells,             \* grid: the day cells generateCalendarDays produced
    modal,             \* grid: the day-events modals open in document.body
    emitted,           \* messages: calls of showNotification and showToast so far
    noteElements,      \* messages: the notification elements in document.body, oldest first
    toasts,            \* messages: the toast elements in the document, in DOM order
    fadeQueue,         \* messages: toasts whose 500 ms removal timer is pending, in firing order
    toastContainer,    \* messages: the closure variable toastContainer
    toastError         \* messages: a toast's removal callback threw

widgetVars == <<containerPresent, phase, statusOutcome, calendarStatus, currentDate,
                events, isLoading, refreshInterval, timerActive, inflight, fetchCount,
                view, header, grid, upcoming, navListeners, notifications, denied,
                destroyed>>
settledVars == <<recording, arrived, shownCount>>
normVars == <<nEvent, nStart>>
renderVars == <<clock, listing, tz, cells, modal>>
toastVars == <<emitted, noteElements, toasts, fadeQueue, toastContainer, toastError>>
vars == <<widgetVars, settledVars, normVars, renderVars, toastVars>>

(***************************************************************************)
(* Bounds of the model.                                                    *)
(***************************************************************************)
MaxFetches == 4        \* requests to the events endpoint in one behaviour
MaxMonthsAway == 1     \* navigation stays within this many months of BaseMonth
MaxInstant == 2        \* instants a date string of a raw event may denote

(***************************************************************************)
(* JavaScript values.                                                      *)
(***************************************************************************)
Null == [t |-> "null"]
Undefined == [t |-> "undefined"]
NaN == [t |-> "NaN"]
Str(s) == [t |-> "string", s |-> s]
Obj(dateTime, date) == [t |-> "object", dateTime |-> dateTime, date |-> date]
Instant(n) == [t |-> "date", time |-> n]

\* The text of a string: an ISO date-time, an ISO date, other text, or nothing.
DateTimeText(n) == <<"dateTime", n>>
DateText(n) == <<"date", n>>
OtherText == <<"text">>
EmptyText == <<"empty">>

\* ToBoolean, as || applies it.
Truthy(v) ==
    CASE v.t = "undefined" -> FALSE
      [] v.t = "null" -> FALSE
      [] v.t = "NaN" -> FALSE
      [] v.t = "string" -> v.s # EmptyText
      [] OTHER -> TRUE

\* a || b
Or(a, b) == IF Truthy(a) THEN a ELSE b

\* Array.prototype.slice(0, end)
slice(seq, end) == SubSeq(seq, 1, IF end < Len(seq) THEN end ELSE Len(seq))

\* v?.name : undefined for null and undefined, and for a primitive without it.
Field(v, name) ==
    IF v.t = "object"
    THEN (IF name = "dateTime" THEN v.dateTime ELSE
          IF name = "date" THEN v.date ELSE Undefined)
    ELSE Undefined

\* event?.name on a raw event (a record of the fields the code reads) or null.
EventField(e, name) ==
    IF e.t # "event" THEN Undefined
    ELSE IF name = "start_datetime" THEN e.start_datetime
    ELSE IF name = "start" THEN e.start
    ELSE Undefined

\* ToPrimitive of the Date constructor's argument: a plain object becomes the
\* text "[object Object]".
ToPrimitive(v) == IF v.t = "object" THEN Str(OtherText) ELSE v

\* Date.parse: an instant is a number of hours since the epoch.  The
\* date-time text of instant n gives n, the date-only text of UTC day n gives
\* midnight UTC of that day, anything else NaN.
DateParse(text) ==
    CASE text[1] = "dateTime" -> text[2]
      [] text[1] = "date" -> text[2] * 24
      [] OTHER -> -1

\* new Date(v) for the values getEventStartDate passes.
NewDate(v) ==
    LET p == ToPrimitive(v) IN
    IF p.t = "string" /\ DateParse(p.s) >= 0 THEN Instant(DateParse(p.s)) ELSE NaN

getEventStartString(e) ==
    Or(EventField(e, "start_datetime"),
       Or(EventField(e, "start"),
          Or(Field(EventField(e, "start"), "dateTime"),
             Or(Field(EventField(e, "start"), "date"), Null))))

getEventStartDate(e) ==
    LET s == getEventStartString(e) IN
    IF ~Truthy(s) THEN Null
    ELSE LET d == NewDate(s) IN IF d.t = "NaN" THEN Null ELSE d

RawEvent(sd, st) == [t |-> "event", start_datetime |-> sd, start |-> st]


\* The values a field of a provider or server payload takes in this model.
Texts == {EmptyText, OtherText} \cup {DateTimeText(n) : n \in 0..MaxInstant}
             \cup {DateText(n) : n \in 0..MaxInstant}
Primitives == {Undefined} \cup {Str(x) : x \in Texts}
StartObjects == {Obj(a, b) : a \in {Undefined, Str(OtherText), Str(DateTimeText(1))},
                             b \in {Undefined, Str(OtherText), Str(DateText(1))}}
RawEvents == {RawEvent(sd, st) : sd \in Primitives, st \in Primitives \cup StartObjects}

\* Two concrete events and the event lists a response of the events endpoint carries.
EvAdvising == RawEvent(Undefined, Str(DateTimeText(1)))
EvExam == RawEvent(Str(DateTimeText(2)), Undefined)
Payloads == {<<>>, <<EvAdvising>>, <<EvExam, EvAdvising>>}

(***************************************************************************)
(* Local calendar dates: [y, m, d] with m in 0..11 as Date.getMonth().      *)
(***************************************************************************)
IsLeap(y) == (y % 4 = 0 /\ y % 100 # 0) \/ y % 400 = 0

DaysInMonth(y, m) ==
    IF m = 1 THEN (IF IsLeap(y) THEN 29 ELSE 28)
    ELSE IF m \in {3, 5, 8, 10} THEN 30 ELSE 31

MonthIndex(date) == date.y * 12 + date.m

\* Date.prototype.setMonth(m) with m possibly outside 0..11: the month carries
\* into the year, then a day past the end of that month carries into the next.
setMonth(date, m) ==
    LET y1 == date.y + (m \div 12)
        m1 == m % 12
        len == DaysInMonth(y1, m1)
    IN  IF date.d <= len THEN [y |-> y1, m |-> m1, d |-> date.d]
        ELSE [y |-> y1 + ((m1 + 1) \div 12), m |-> (m1 + 1) % 12, d |-> date.d - len]

\* this.currentDate.setMonth(this.currentDate.getMonth() + direction)
navigateMonthDate(date, direction) == setMonth(date, date.m + direction)

\* The date after the same navigation ran n times (one per click listener).
RECURSIVE navigateTimes(_, _, _)
navigateTimes(date, direction, n) ==
    IF n = 0 THEN date
    ELSE navigateTimes(navigateMonthDate(date, direction), direction, n - 1)

\* new Date() when the widget is constructed.
Todays == {[y |-> 2025, m |-> 0, d |-> 31], [y |-> 2025, m |-> 2, d |-> 10]}
BaseMonth == 2025 * 12 + 1
InWindow(date) ==
    /\ MonthIndex(date) >= BaseMonth - MaxMonthsAway
    /\ MonthIndex(date) <= BaseMonth + MaxMonthsAway

(***************************************************************************)
(* Status gate.                                                            *)
(***************************************************************************)
Status(access, method) ==
    [t |-> "object", has_google_access |-> access, auth_method |-> method]

\* this.calendarStatus?.has_google_access
HasAccess(status) == status.t = "object" /\ status.has_google_access

\* The failure branches leaving this.calendarStatus as the constructor set it.
DegradedStatus_Unset == Null

\* What checkCalendarStatus stores when the request fails (both branches).
DegradedStatus == Status(FALSE, "traditional")

\* The bodies a 2xx status response carries (section 6 of the specification).
StatusBodies == {Status(TRUE, "google"), Status(FALSE, "traditional")}

\* getCalendarHTML: which of the two documents is generated.
getCalendarHTML(status) == IF ~HasAccess(status) THEN "signin" ELSE "calendar"

\* init arming the timer whatever the status says.
initArmsTimer_Always(status) == TRUE

\* init: whether startAutoRefresh is called.
initArmsTimer(status) == HasAccess(status)

\* What setInterval returns: a positive number.
IntervalHandle == [t |-> "number", n |-> 1]

\* The guard of the interval callback in startAutoRefresh.
tickGuard(status, loading) == HasAccess(status) /\ ~loading

(***************************************************************************)
(* Notifications.                                                          *)
(***************************************************************************)
Notification(message, type) == [message |-> message, type |-> type]
UpdatedNote == Notification("Calendar events updated", "success")
DeniedNote(body) ==
    Notification(IF body.k = "error" THEN body.error ELSE "Calendar access denied", "error")
FailedNote == Notification("Failed to load calendar events", "error")

\* document.body.appendChild(notification) in showNotification.  Every
\* notification element has the same fixed position (top-4 right-4), so the
\* newest covers the older ones: `notifications` holds the element on view.
showNotification(shown, note) == <<note>>

(***************************************************************************)
(* Event store and fetcher.  A request of `inflight` is one call of        *)
(* fetchCalendarEvents suspended at its awaits; `cont` is the caller that  *)
(* resumes when the call returns.  The two awaits of a call, fetch() and   *)
(* response.json(), settle in one step: the widget's state is the same     *)
(* before and between them.                                                *)
(***************************************************************************)
\* No list stored yet by the sequence a request belongs to.
NoList == [ok |-> FALSE, events |-> <<>>]

Request(cont) == [cont |-> cont, late |-> FALSE, fetched |-> NoList]

\* The request renderCalendar sends inside refreshCalendar, after the fetch of
\* refreshCalendar itself has settled; `stored` when it stored the list `evs`.
RequestAfter(stored, evs) ==
    [Request("render") EXCEPT !.fetched = IF stored THEN [ok |-> TRUE, events |-> evs]
                                          ELSE NoList]

\* The requests sent before request i, marked: a response to a request sent
\* after them has been stored.
Overtake(reqs, i) ==
    [j \in 1..Len(reqs) |-> IF j < i THEN [reqs[j] EXCEPT !.late = TRUE] ELSE reqs[j]]

\* n copies of a request, for n listeners run by one click.
Requests(cont, n) == [i \in 1..n |-> Request(cont)]

RemoveAt(seq, i) == SubSeq(seq, 1, i - 1) \o SubSeq(seq, i + 1, Len(seq))

\* Requests a suspended refreshCalendar will still send from its renderCalendar.
Owed == Cardinality({i \in 1..Len(inflight) : inflight[i].cont = "refresh"})

\* Room left under MaxFetches for n more requests, each followed by `more` others.
CanSend(n, more) == fetchCount + Owed + n * (1 + more) <= MaxFetches

\* What the server answers: a status code (or a transport error) and a body.
Unreadable == [k |-> "unreadable"]
OkBodies == {[k |-> "events", events |-> p] : p \in Payloads}
                \cup {[k |-> "noEvents"], Unreadable}
DeniedBodies == {[k |-> "error", error |-> "Access revoked"], [k |-> "noError"], Unreadable}
Answer(code, body) == [code |-> code, body |-> body]
Answers == {Answer("ok", b) : b \in OkBodies}
               \cup {Answer("403", b) : b \in DeniedBodies}
               \cup {Answer("500", Unreadable), Answer("neterr", Unreadable)}

\* The path fetchCalendarEvents takes for an answer: the 2xx branch, the 403
\* branch, or the catch block (a thrown Error, a rejected fetch, a body that
\* cannot be parsed).
outcomeOf(answer) ==
    IF answer.code = "ok" /\ answer.body.k # "unreadable" THEN "success"
    ELSE IF answer.code = "403" /\ answer.body.k # "unreadable" THEN "denied"
    ELSE "failed"

\* data.events || []
eventsOfBody(body) == IF body.k = "events" THEN body.events ELSE <<>>

\* The response's list added to the list already held instead of replacing it.
eventsAfter_Merged(answer, old) ==
    IF outcomeOf(answer) = "success" THEN old \o eventsOfBody(answer.body) ELSE old

\* this.events after fetchCalendarEvents returned: replaced by the response's
\* list on success, and what it was on every other path.
eventsAfter(answer, old) ==
    IF outcomeOf(answer) = "success" THEN eventsOfBody(answer.body) ELSE old

\* Only the response to the newest request stored.
storesResponse_NewestOnly(late) == ~late

\* Whether a 2xx response is stored when the response to a later request has
\* been stored already: the code compares nothing, every response is stored.
storesResponse(late) == TRUE

\* The generic failure text shown for a 403 as well.
noteOf_DeniedGeneric(answer) ==
    IF outcomeOf(answer) = "success" THEN UpdatedNote ELSE FailedNote

\* The notification fetchCalendarEvents shows on each path.
noteOf(answer) ==
    IF outcomeOf(answer) = "success" THEN UpdatedNote
    ELSE IF outcomeOf(answer) = "denied" THEN DeniedNote(answer.body)
    ELSE FailedNote

\* The flag cleared at the end of the try block only: a throw skips it.
loadingAfter_TryOnly(outcome) == outcome = "failed"

\* this.isLoading after the finally block of fetchCalendarEvents.
loadingAfter(outcome) == FALSE

\* The DOM after container.innerHTML = getCalendarHTML() and
\* attachCalendarEventListeners(): new buttons, one listener each.
RenderFull(evs) ==
    /\ view' = getCalendarHTML(calendarStatus)
    /\ IF HasAccess(calendarStatus)
       THEN /\ header' = [y |-> currentDate.y, m |-> currentDate.m]
            /\ grid' = [y |-> currentDate.y, m |-> currentDate.m, events |-> evs]
            /\ upcoming' = evs
            /\ navListeners' = 1
       ELSE /\ header' = Null
            /\ grid' = Null
            /\ upcoming' = Null
            /\ navListeners' = 0

\* The DOM after the interval callback's partial re-render: the grid and the
\* upcoming list are rebuilt, the header is kept, and
\* attachCalendarEventListeners() adds one more listener to each button.
RenderPartial(evs) ==
    /\ UNCHANGED <<view, header>>
    /\ IF view = "calendar"
       THEN /\ grid' = [y |-> currentDate.y, m |-> currentDate.m, events |-> evs]
            /\ upcoming' = evs
            /\ navListeners' = navListeners + 1
       ELSE UNCHANGED <<grid, upcoming, navListeners>>

\* The events request of call i settles with `answer`: fetchCalendarEvents
\* returns through its finally block and its caller resumes.
Settle(i, answer) ==
    LET stored == storesResponse(inflight[i].late)
        evs == IF stored THEN eventsAfter(answer, events) ELSE events
        rest == RemoveAt(IF recording /\ stored /\ outcomeOf(answer) = "success"
                         THEN Overtake(inflight, i) ELSE inflight, i)
        cont == inflight[i].cont
    IN  /\ i \in 1..Len(inflight)
        /\ shownCount' = shownCount + 1
        /\ events' = evs
        /\ arrived' = IF recording /\ outcomeOf(answer) = "success"
                      THEN [events |-> eventsOfBody(answer.body), late |-> inflight[i].late]
                      ELSE arrived
        /\ notifications' = showNotification(notifications, noteOf(answer))
        /\ denied' = (denied \/ answer.code = "403")
        /\ CASE cont = "render" ->
                  \* renderCalendar writes the container and attaches listeners
                  /\ RenderFull(evs)
                  /\ isLoading' = loadingAfter(outcomeOf(answer))
                  /\ inflight' = rest
                  /\ UNCHANGED fetchCount
             [] cont = "refresh" ->
                  \* refreshCalendar goes on to renderCalendar, which fetches again
                  /\ isLoading' = TRUE
                  /\ inflight' = Append(rest, RequestAfter(
                                        recording /\ outcomeOf(answer) = "success", evs))
                  /\ fetchCount' = fetchCount + 1
                  /\ UNCHANGED <<view, header, grid, upcoming, navListeners>>
             [] cont = "tick" ->
                  /\ RenderPartial(evs)
                  /\ isLoading' = loadingAfter(outcomeOf(answer))
                  /\ inflight' = rest
                  /\ UNCHANGED fetchCount
        /\ UNCHANGED <<containerPresent, phase, statusOutcome, calendarStatus,
                       currentDate, refreshInterval, timerActive, destroyed,
                       recording, normVars, renderVars, toastVars>>

(***************************************************************************)
(* Initialization.                                                         *)
(***************************************************************************)
\* init after checkCalendarStatus returned with `status`: renderCalendar runs
\* up to its first await (it is not awaited), then the timer is armed.
InitContinue(status) ==
    /\ calendarStatus' = status
    /\ phase' = "ready"
    /\ IF containerPresent
       THEN IF HasAccess(status)
            THEN /\ isLoading' = TRUE
                 /\ inflight' = Append(inflight, Request("render"))
                 /\ fetchCount' = fetchCount + 1
                 /\ UNCHANGED <<view, header, grid, upcoming, navListeners>>
            ELSE /\ view' = getCalendarHTML(status)
                 /\ UNCHANGED <<isLoading, inflight, fetchCount, header, grid, upcoming,
                                navListeners>>
       ELSE UNCHANGED <<isLoading, inflight, fetchCount, view, header, grid, upcoming,
                        navListeners>>
    /\ IF initArmsTimer(status)
       THEN refreshInterval' = IntervalHandle /\ timerActive' = TRUE
       ELSE UNCHANGED <<refreshInterval, timerActive>>
    /\ UNCHANGED <<containerPresent, currentDate, events, notifications, denied,
                   destroyed, settledVars, normVars, renderVars, toastVars>>

\* DOMContentLoaded: the manager is constructed and init sends the status request.
DOMContentLoaded ==
    /\ phase = "unloaded"
    /\ phase' = "status"
    /\ UNCHANGED <<containerPresent, statusOutcome, calendarStatus, currentDate, events,
                   isLoading, refreshInterval, timerActive, inflight, fetchCount, view,
                   header, grid, upcoming, navListeners, notifications, denied,
                   destroyed, settledVars, normVars, renderVars, toastVars>>

\* fetch() of the status endpoint settles.
StatusResponse(code) ==
    /\ phase = "status"
    /\ IF code = "ok"
       THEN /\ phase' = "statusBody"
            /\ UNCHANGED <<containerPresent, statusOutcome, calendarStatus, currentDate,
                           events, isLoading, refreshInterval, timerActive, inflight,
                           fetchCount, view, header, grid, upcoming, navListeners,
                           notifications, denied, destroyed,
                           settledVars, normVars, renderVars, toastVars>>
       ELSE /\ statusOutcome' = code
            /\ InitContinue(DegradedStatus)

\* response.json() of the status response settles.
StatusBody(body) ==
    /\ phase = "statusBody"
    /\ IF body.t = "unreadable"
       THEN /\ statusOutcome' = "badbody"
            /\ InitContinue(DegradedStatus)
       ELSE /\ statusOutcome' = "ok"
            /\ InitContinue(body)

(***************************************************************************)
(* Interaction.                                                            *)
(***************************************************************************)
\* A click on #prev-month (-1) or #next-month (1): every listener on the button
\* runs navigateMonth, which moves the month and calls renderCalendar, which
\* fetches and suspends.
ClickNavigate(direction) ==
    /\ view = "calendar"
    /\ navListeners >= 1
    /\ CanSend(navListeners, 0)
    /\ InWindow(navigateTimes(currentDate, direction, navListeners))
    /\ currentDate' = navigateTimes(currentDate, direction, navListeners)
    /\ isLoading' = TRUE
    /\ inflight' = inflight \o Requests("render", navListeners)
    /\ fetchCount' = fetchCount + navListeners
    /\ UNCHANGED <<containerPresent, phase, statusOutcome, calendarStatus, events,
                   refreshInterval, timerActive, view, header, grid, upcoming,
                   navListeners, notifications, denied, destroyed,
                   settledVars, normVars, renderVars, toastVars>>

\* A click on #refresh-calendar: every listener runs refreshCalendar, which
\* fetches and suspends.
ClickRefresh ==
    /\ view = "calendar"
    /\ navListeners >= 1
    /\ CanSend(navListeners, 1)
    /\ isLoading' = TRUE
    /\ inflight' = inflight \o Requests("refresh", navListeners)
    /\ fetchCount' = fetchCount + navListeners
    /\ UNCHANGED <<containerPresent, phase, statusOutcome, calendarStatus, currentDate,
                   events, refreshInterval, timerActive, view, header, grid, upcoming,
                   navListeners, notifications, denied, destroyed,
                   settledVars, normVars, renderVars, toastVars>>

\* The interval fires: the callback fetches when its guard holds.
Tick ==
    /\ timerActive
    /\ IF tickGuard(calendarStatus, isLoading)
       THEN /\ CanSend(1, 0)
            /\ isLoading' = TRUE
            /\ inflight' = Append(inflight, Request("tick"))
            /\ fetchCount' = fetchCount + 1
       ELSE UNCHANGED <<isLoading, inflight, fetchCount>>
    /\ UNCHANGED <<containerPresent, phase, statusOutcome, calendarStatus, currentDate,
                   events, refreshInterval, timerActive, view, header, grid, upcoming,
                   navListeners, notifications, denied, destroyed,
                   settledVars, normVars, renderVars, toastVars>>

\* beforeunload: destroy() clears the interval when there is one.
Destroy ==
    /\ phase # "unloaded"
    /\ ~destroyed
    /\ destroyed' = TRUE
    /\ timerActive' = IF Truthy(refreshInterval) THEN FALSE ELSE timerActive
    /\ UNCHANGED <<containerPresent, phase, statusOutcome, calendarStatus, currentDate,
                   events, isLoading, refreshInterval, inflight, fetchCount, view,
                   header, grid, upcoming, navListeners, notifications, denied,
                   settledVars, normVars, renderVars, toastVars>>

\* The removal timers of showNotification run in the order the notifications
\* were shown: when the one on view is removed, the older ones are gone already.
NotificationExpires ==
    /\ notifications # <<>>
    /\ notifications' = <<>>
    /\ UNCHANGED <<containerPresent, phase, statusOutcome, calendarStatus, currentDate,
                   events, isLoading, refreshInterval, timerActive, inflight, fetchCount,
                   view, header, grid, upcoming, navListeners, denied, destroyed,
                   settledVars, normVars, renderVars, toastVars>>

(***************************************************************************)
(* The widget's specification.                                             *)
(***************************************************************************)
\* The fields as the constructor leaves them, nothing requested, rendered or
\* shown yet.
Constructed ==
    /\ phase = "unloaded"
    /\ statusOutcome = "pending"
    /\ calendarStatus = Null
    /\ isLoading = FALSE
    /\ refreshInterval = Null
    /\ timerActive = FALSE
    /\ inflight = <<>>
    /\ arrived = Null
    /\ shownCount = 0
    /\ fetchCount = 0
    /\ view = "none"
    /\ header = Null
    /\ grid = Null
    /\ upcoming = Null
    /\ navListeners = 0
    /\ notifications = <<>>
    /\ denied = FALSE
    /\ destroyed = FALSE
    /\ nEvent = Null
    /\ nStart = Undefined
    /\ clock = <<>>
    /\ listing = Null
    /\ cells = Null
    /\ modal = <<>>
    /\ emitted = 0
    /\ noteElements = <<>>
    /\ toasts = <<>>
    /\ fadeQueue = <<>>
    /\ toastContainer = Null
    /\ toastError = FALSE

Init ==
    /\ containerPresent \in BOOLEAN
    /\ currentDate \in Todays
    /\ events = <<>>
    /\ tz = 0
    /\ recording = FALSE
    /\ Constructed

Next ==
    \/ DOMContentLoaded
    \/ \E code \in {"ok", "non2xx", "neterr"} : StatusResponse(code)
    \/ \E body \in StatusBodies \cup {[t |-> "unreadable"]} : StatusBody(body)
    \/ \E i \in 1..Len(inflight), answer \in Answers : Settle(i, answer)
    \/ \E direction \in {-1, 1} : ClickNavigate(direction)
    \/ ClickRefresh
    \/ Tick
    \/ Destroy
    \/ NotificationExpires

Spec == Init /\ [][Next]_vars

TypeOK ==
    /\ containerPresent \in BOOLEAN
    /\ phase \in {"unloaded", "status", "statusBody", "ready"}
    /\ isLoading \in BOOLEAN
    /\ fetchCount \in 0..MaxFetches
    /\ Len(inflight) <= MaxFetches
    /\ view \in {"none", "signin", "calendar"}
    /\ InWindow(currentDate)


\* The widget with the order of arrivals recorded: a request in flight is
\* marked late once the response to a request sent after it was stored.
InitRace ==
    /\ containerPresent \in BOOLEAN
    /\ currentDate \in Todays
    /\ events = <<>>
    /\ tz = 0
    /\ recording = TRUE
    /\ Constructed

SpecRace == InitRace /\ [][Next]_vars

\* Every issued request eventually settles.
FairSpec == Spec /\ WF_vars(\E i \in 1..Len(inflight), answer \in Answers : Settle(i, answer))

(***************************************************************************)
(* The event normalizer on its own: getEventStartDate applied to every     *)
(* shape of raw event, the widget left as constructed.                     *)
(***************************************************************************)
InitNormalizer ==
    /\ Init
    /\ containerPresent
    /\ currentDate = [y |-> 2025, m |-> 2, d |-> 10]

\* A renderer reads the start of the event.
Normalize ==
    /\ nStart = Undefined
    /\ nStart' = getEventStartDate(nEvent)
    /\ UNCHANGED <<nEvent, widgetVars, settledVars, renderVars, toastVars>>

\* The next event of a payload comes under inspection.
Inspect(e) ==
    /\ nEvent' = e
    /\ nStart' = Undefined
    /\ UNCHANGED <<widgetVars, settledVars, renderVars, toastVars>>

NextNormalizer ==
    \/ Normalize
    \/ \E e \in RawEvents \cup {Null} : Inspect(e)

SpecNormalizer == InitNormalizer /\ [][NextNormalizer]_vars

(***************************************************************************)
(* The month grid on its own: generateCalendarDays, getEventsForDate and    *)
(* handleDayClick for every month of a leap and a common year, viewers in  *)
(* several time zones.  A zone is the whole number of hours its local time *)
(* is ahead of UTC; daylight saving changes are left out.                  *)
(***************************************************************************)
\* Days from 1970-01-01 to the local date: the date's day in the time value.
LeapsBefore(y) == ((y - 1) \div 4) - ((y - 1) \div 100) + ((y - 1) \div 400)

RECURSIVE DaysBeforeMonth(_, _)
DaysBeforeMonth(y, m) ==
    IF m = 0 THEN 0 ELSE DaysBeforeMonth(y, m - 1) + DaysInMonth(y, m - 1)

DayNumber(date) ==
    365 * (date.y - 1970) + LeapsBefore(date.y) - LeapsBefore(1970)
        + DaysBeforeMonth(date.y, date.m) + date.d - 1

\* Date.prototype.getDay() of a local date: 0 is Sunday.
getDay(date) ==
    LET t == <<0, 3, 2, 5, 0, 3, 5, 1, 4, 6, 2, 4>>
        y == IF date.m < 2 THEN date.y - 1 ELSE date.y
    IN  (y + (y \div 4) - (y \div 100) + (y \div 400) + t[date.m + 1] + date.d) % 7

\* Date.prototype.setDate(d) with d possibly outside the month: days before
\* the 1st carry into the months before, days past the end into those after.
RECURSIVE setDate(_, _)
setDate(date, d) ==
    IF d < 1
    THEN LET before == IF date.m = 0 THEN [y |-> date.y - 1, m |-> 11, d |-> 1]
                       ELSE [y |-> date.y, m |-> date.m - 1, d |-> 1]
         IN  setDate(before, d + DaysInMonth(before.y, before.m))
    ELSE IF d > DaysInMonth(date.y, date.m)
    THEN LET after == IF date.m = 11 THEN [y |-> date.y + 1, m |-> 0, d |-> 1]
                      ELSE [y |-> date.y, m |-> date.m + 1, d |-> 1]
         IN  setDate(after, d - DaysInMonth(date.y, date.m))
    ELSE [date EXCEPT !.d = d]

\* The Date object of a local date at 00:00 in the viewer's zone.
LocalMidnight(date, zone) == Instant(DayNumber(date) * 24 - zone)

\* date.toISOString().split('T')[0]: the text of the instant's UTC day.
toISODate(date) == DateText(date.time \div 24)

\* getEventsForDate(date) over the events `evs`.
getEventsForDate(date, evs) ==
    SelectSeq(evs, LAMBDA e :
        LET start == getEventStartDate(e)
        IN  Truthy(start) /\ toISODate(start) = toISODate(date))

\* const totalDays = 42
totalDays == 42

\* The grid's weeks starting on Monday.
startDate_Monday(firstDay) == setDate(firstDay, firstDay.d - getDay(firstDay) + 1)

\* startDate.setDate(startDate.getDate() - firstDay.getDay())
startDate(firstDay) == setDate(firstDay, firstDay.d - getDay(firstDay))

\* One cell of the grid: the local date it displays, its data-date attribute,
\* whether it is of the reference month, the events of the day and the at
\* most two of them it shows markers for.  The highlight of today is left out.
DayCell(currentDay, month, evs, zone) ==
    LET dayEvents == getEventsForDate(LocalMidnight(currentDay, zone), evs)
    IN  [date |-> currentDay,
         key |-> toISODate(LocalMidnight(currentDay, zone)),
         isCurrentMonth |-> currentDay.m = month,
         events |-> dayEvents,
         markers |-> slice(dayEvents, 2)]

\* generateCalendarDays() for the reference date `current`.
generateCalendarDays(current, evs, zone) ==
    LET firstDay == [y |-> current.y, m |-> current.m, d |-> 1]
        start == startDate(firstDay)
    IN  [n \in 1..totalDays |->
            DayCell(setDate(start, start.d + (n - 1)), current.m, evs, zone)]

\* document.body after handleDayClick ran for the cell with data-date `key`:
\* showDayEventsModal appends a modal when the day has events.
handleDayClick(key, evs, zone, modals) ==
    LET dayEvents == getEventsForDate(NewDate(Str(key)), evs)
    IN  IF Len(dayEvents) > 0
        THEN Append(modals, [date |-> key, events |-> dayEvents])
        ELSE modals

\* The months of 2024 and 2025, four events of March 2025 (the second is late
\* in the UTC day, the third has a date-only start, the fourth the nested
\* provider start) and the viewers' zones.
GridMonths == {[y |-> y, m |-> m, d |-> 15] : y \in {2024, 2025}, m \in 0..11}
March(d, h) == DayNumber([y |-> 2025, m |-> 2, d |-> d]) * 24 + h
EvMarch10 == RawEvent(Undefined, Str(DateTimeText(March(10, 15))))
EvMarch10Late == RawEvent(Str(DateTimeText(March(10, 23))), Undefined)
EvMarch1AllDay == RawEvent(Undefined, Str(DateText(March(1, 0) \div 24)))
EvMarch12Nested == RawEvent(Undefined, Obj(Str(DateTimeText(March(12, 9))), Undefined))
GridEvents == {EvMarch10, EvMarch10Late, EvMarch1AllDay, EvMarch12Nested}
GridLists == UNION {[1..n -> GridEvents] : n \in 0..2}
Zones == {-12, -5, 0, 2, 14}

InitGrid ==
    /\ containerPresent = TRUE
    /\ recording = FALSE
    /\ currentDate \in GridMonths
    /\ events \in GridLists
    /\ tz \in Zones
    /\ Constructed

\* generateCalendarDays runs, once for each month, list and zone.
GenerateCalendarDays ==
    /\ cells = Null
    /\ cells' = generateCalendarDays(currentDate, events, tz)
    /\ UNCHANGED <<widgetVars, settledVars, normVars, toastVars, clock, listing, tz, modal>>

\* A click on the n-th day cell.  An open modal covers the page, so a cell
\* is clicked only when none is open.
DayClick(n) ==
    /\ cells # Null
    /\ modal = <<>>
    /\ modal' = handleDayClick(cells[n].key, events, tz, modal)
    /\ UNCHANGED <<widgetVars, settledVars, normVars, toastVars, clock, listing, tz, cells>>

\* A click on the backdrop or on the close button of the modal removes it.
CloseModal ==
    /\ modal # <<>>
    /\ modal' = <<>>
    /\ UNCHANGED <<widgetVars, settledVars, normVars, toastVars, clock, listing, tz, cells>>

NextGrid ==
    \/ GenerateCalendarDays
    \/ \E n \in 1..totalDays : DayClick(n)
    \/ CloseModal

SpecGrid == InitGrid /\ [][NextGrid]_vars

(***************************************************************************)
(* The upcoming-events list on its own: generateUpcomingEvents applied to   *)
(* event lists of up to one more event than the list shows.                *)
(***************************************************************************)
\* .slice(0, 5)
UpcomingLimit == 5

\* The filter's test: d && d >= new Date(), `now` being what new Date() read.
isUpcoming(e, now) ==
    LET d == getEventStartDate(e) IN Truthy(d) /\ d.time >= now

\* this.events.filter(...): the events that pass, in the order of the list.
\* The test reads the clock once per event.
RECURSIVE filterUpcoming(_, _, _)
filterUpcoming(evs, nows, i) ==
    IF i > Len(evs) THEN <<>>
    ELSE (IF isUpcoming(evs[i], nows[i]) THEN <<evs[i]>> ELSE <<>>)
             \o filterUpcoming(evs, nows, i + 1)

\* The markup generateUpcomingEvents returns: the placeholder block, or one
\* block per listed event (none at all for an empty list).
Placeholder == [k |-> "placeholder", text |-> "No upcoming events"]
Items(list) == [k |-> "items", items |-> list]
generateUpcomingEvents(evs, nows) ==
    IF Len(evs) = 0 THEN Placeholder
    ELSE Items(slice(filterUpcoming(evs, nows, 1), UpcomingLimit))

\* Events of the lists: one in the past, two to come, one whose start is the
\* nested provider object.
EvPast == RawEvent(Undefined, Str(DateTimeText(0)))
EvNested == RawEvent(Undefined, Obj(Str(DateTimeText(2)), Undefined))
Listed == {EvPast, EvAdvising, EvExam, EvNested}
EventLists == UNION {[1..n -> Listed] : n \in 0..(UpcomingLimit + 1)}

\* Clock readings for n events: the clock shows `now` and moves on by one
\* after `after` of them were examined.
Readings(n, now, after) == [i \in 1..n |-> IF i > after THEN now + 1 ELSE now]

InitUpcoming ==
    /\ containerPresent = TRUE
    /\ recording = FALSE
    /\ currentDate = [y |-> 2025, m |-> 2, d |-> 10]
    /\ events \in EventLists
    /\ tz = 0
    /\ Constructed

\* generateUpcomingEvents runs over this.events, once for each list.
GenerateUpcomingEvents(now, after) ==
    /\ listing = Null
    /\ clock' = Readings(Len(events), now, after)
    /\ listing' = generateUpcomingEvents(events, clock')
    /\ UNCHANGED <<widgetVars, settledVars, normVars, toastVars, tz, cells, modal>>

NextUpcoming ==
    \E now \in 0..MaxInstant, after \in 0..Len(events) : GenerateUpcomingEvents(now, after)

SpecUpcoming == InitUpcoming /\ [][NextUpcoming]_vars


(***************************************************************************)
(* The message layer on its own: showNotification and the page's showToast *)
(* with their removal timers, the widget left as constructed.  Timers of   *)
(* one delay fire in the order they were set: the notifications' 5000 ms   *)
(* and 300 ms timers and the toasts' 500 ms timers.  A toast's first timer *)
(* has the delay its caller chose, so toasts start fading in any order.    *)
(***************************************************************************)
MaxMessages == 3       \* messages emitted in one behaviour

Element(id, stage) == [id |-> id, phase |-> stage]
Ids(elements) == {elements[k].id : k \in 1..Len(elements)}

\* A notification element taken out only when no other one is displayed.
removeChild_WhenAlone(elements) == IF Len(elements) = 1 THEN <<>> ELSE elements

\* notification.parentNode.removeChild(notification), the notification being
\* the oldest in document.body.
removeChild(elements) == Tail(elements)

\* toast.remove()
removeToast(elements, id) == SelectSeq(elements, LAMBDA e : e.id # id)

\* A container created on every call, also when there is one.
ensureToastContainer_Fresh(container, id) == [t |-> "element", id |-> id]

\* ensureToastContainer(): a container is created when there is none.
ensureToastContainer(container, id) ==
    IF Truthy(container) THEN container ELSE [t |-> "element", id |-> id]

\* toastContainer.children of the container `container`.
children(container, elements) == SelectSeq(elements, LAMBDA e : e.parent = container.id)

InitToast ==
    /\ Init
    /\ containerPresent
    /\ currentDate = [y |-> 2025, m |-> 2, d |-> 10]

\* showNotification(message, type): the element is appended to document.body
\* and its timers are set.
ShowNotification(note) ==
    /\ emitted < MaxMessages
    /\ emitted' = emitted + 1
    /\ noteElements' = Append(noteElements, Element(emitted + 1, "shown"))
    /\ notifications' = showNotification(notifications, note)
    /\ shownCount' = shownCount + 1
    /\ UNCHANGED <<containerPresent, phase, statusOutcome, calendarStatus, currentDate,
                   events, isLoading, refreshInterval, timerActive, inflight, fetchCount,
                   view, header, grid, upcoming, navListeners, denied, destroyed,
                   recording, arrived, normVars, renderVars, toasts, fadeQueue,
                   toastContainer, toastError>>

\* The 5000 ms timer of the oldest notification that has not faded yet.
NotificationFades ==
    /\ \E k \in 1..Len(noteElements) :
          /\ noteElements[k].phase = "shown"
          /\ \A j \in 1..(k - 1) : noteElements[j].phase = "fading"
          /\ noteElements' = [noteElements EXCEPT ![k].phase = "fading"]
    /\ UNCHANGED <<widgetVars, settledVars, normVars, renderVars, emitted, toasts,
                   fadeQueue, toastContainer, toastError>>

\* The 300 ms timer of the oldest notification: it is taken out of the body.
NotificationRemoved ==
    /\ noteElements # <<>>
    /\ noteElements[1].phase = "fading"
    /\ noteElements' = removeChild(noteElements)
    /\ notifications' = IF noteElements' = <<>> THEN <<>> ELSE notifications
    /\ UNCHANGED <<containerPresent, phase, statusOutcome, calendarStatus, currentDate,
                   events, isLoading, refreshInterval, timerActive, inflight, fetchCount,
                   view, header, grid, upcoming, navListeners, denied, destroyed,
                   settledVars, normVars, renderVars, emitted, toasts, fadeQueue,
                   toastContainer, toastError>>

\* showToast(message, type, duration): the toast is appended to the
\* container, which is created first when there is none.
ShowToast ==
    /\ emitted < MaxMessages
    /\ emitted' = emitted + 1
    /\ toastContainer' = ensureToastContainer(toastContainer, emitted + 1)
    /\ toasts' = Append(toasts, [id |-> emitted + 1, phase |-> "shown",
                                 parent |-> toastContainer'.id])
    /\ UNCHANGED <<widgetVars, settledVars, normVars, renderVars, noteElements,
                   fadeQueue, toastError>>

\* The timer of toast `id` fires after its duration: the toast fades and its
\* 500 ms timer is set.
ToastFades(id) ==
    /\ \E k \in 1..Len(toasts) :
          /\ toasts[k].id = id
          /\ toasts[k].phase = "shown"
          /\ toasts' = [toasts EXCEPT ![k].phase = "fading"]
    /\ fadeQueue' = Append(fadeQueue, id)
    /\ UNCHANGED <<widgetVars, settledVars, normVars, renderVars, emitted,
                   noteElements, toastContainer, toastError>>

\* The oldest pending 500 ms timer fires: the toast is removed; the container
\* goes with it when it has no child left.  Reading the children of a null
\* container throws.
ToastRemoved ==
    /\ fadeQueue # <<>>
    /\ fadeQueue' = Tail(fadeQueue)
    /\ toasts' = removeToast(toasts, Head(fadeQueue))
    /\ IF ~Truthy(toastContainer)
       THEN toastError' = TRUE /\ UNCHANGED toastContainer
       ELSE /\ toastContainer' = IF Len(children(toastContainer, toasts')) = 0
                                 THEN Null ELSE toastContainer
            /\ UNCHANGED toastError
    /\ UNCHANGED <<widgetVars, settledVars, normVars, renderVars, emitted, noteElements>>

NextToast ==
    \/ \E note \in {UpdatedNote, FailedNote} : ShowNotification(note)
    \/ NotificationFades
    \/ NotificationRemoved
    \/ ShowToast
    \/ \E id \in 1..MaxMessages : ToastFades(id)
    \/ ToastRemoved

SpecToast == InitToast /\ [][NextToast]_vars

\* Every timer that was set fires.
FairSpecToast ==
    /\ SpecToast
    /\ WF_vars(NotificationFades)
    /\ WF_vars(NotificationRemoved)
    /\ \A id \in 1..MaxMessages : WF_vars(ToastFades(id))
    /\ WF_vars(ToastRemoved)

(***************************************************************************)
(* Properties.                                                             *)
(***************************************************************************)
NoAccessStored == calendarStatus.t = "object" /\ ~calendarStatus.has_google_access

\* C1: once status resolution has stored has_google_access = false, the
\* container shows the sign-in document, no request to the events endpoint has
\* been sent or is pending, and the interval was never armed.
C1_NoAccessNoFetch ==
    NoAccessStored =>
        /\ fetchCount = 0
        /\ inflight = <<>>
        /\ refreshInterval = Null
        /\ ~timerActive
        /\ (containerPresent => view = "signin")

\* The server answered has_google_access = false, the sign-in document is on
\* display, and the session went on to its teardown.
C1_Witness ==
    /\ statusOutcome = "ok"
    /\ NoAccessStored
    /\ view = "signin"
    /\ destroyed

\* C2: a tick of the interval sends a request only when no other event fetch
\* is in flight.
C2_TickNeverOverlaps ==
    [][(Tick /\ fetchCount' # fetchCount) => inflight = <<>>]_vars

\* C3: a click on the prev-month or next-month control moves the reference
\* month by exactly one month in the clicked direction.
C3_NavigateOneMonth ==
    [][\A direction \in {-1, 1} :
          ClickNavigate(direction) =>
              MonthIndex(currentDate') = MonthIndex(currentDate) + direction]_vars

\* C4: after an event fetch that ends in failure (403, another non-2xx, a
\* thrown error) the events list is empty, and so is the grid rendered next.
C4_FailureEmptiesEvents ==
    [][\A i \in 1..Len(inflight), answer \in Answers :
          (Settle(i, answer) /\ outcomeOf(answer) # "success") =>
              /\ events' = <<>>
              /\ (grid' # grid => grid'.events = <<>>)]_vars

\* The start the claim gives an event: the first of start_datetime, a
\* primitive start, the nested dateTime and the nested date that has a value,
\* parsed; null when there is none or it does not parse.
ClaimedStartString(e) ==
    LET sd == EventField(e, "start_datetime")
        st == EventField(e, "start")
    IN  IF Truthy(sd) THEN sd
        ELSE IF st.t # "object" /\ Truthy(st) THEN st
        ELSE IF Truthy(Field(st, "dateTime")) THEN Field(st, "dateTime")
        ELSE IF Truthy(Field(st, "date")) THEN Field(st, "date")
        ELSE Null

ClaimedStart(e) ==
    LET text == ClaimedStartString(e) IN
    IF text.t = "string" /\ DateParse(text.s) >= 0 THEN Instant(DateParse(text.s)) ELSE Null

\* C5: getEventStartDate resolves the start in the order start_datetime,
\* primitive start, nested dateTime, nested date: a parseable value in any of
\* the four gives its instant, an absent or unparseable one gives null.
C5_StartResolution ==
    nStart # Undefined => nStart = ClaimedStart(nEvent)

\* C6: after destroy() the interval is cancelled and the reference month, the
\* events and isLoading never change again.
C6_DestroyedIsInert ==
    [][destroyed => (~timerActive' /\ UNCHANGED <<currentDate, events, isLoading>>)]_vars

\* A call of fetchCalendarEvents returns to a caller that does not fetch again
\* in the same task: only such a step shortens `inflight`.
Released == Len(inflight') < Len(inflight)

\* C7: every fetchCalendarEvents call leaves isLoading false when it exits, on
\* each of its paths (a step that shortens `inflight`); so isLoading is false whenever no fetch is in flight,
\* and, requests settling eventually, isLoading true leads to isLoading false.
C7_LoadingReleased ==
    /\ [](inflight = <<>> => ~isLoading)
    /\ [][Released => ~isLoading']_vars
    /\ (isLoading ~> ~isLoading)

\* A fetch ended in its catch block and left nothing in flight.
C7_Witness ==
    /\ fetchCount > 0
    /\ inflight = <<>>
    /\ ~isLoading
    /\ FailedNote \in {notifications[k] : k \in 1..Len(notifications)}

StatusFailed == statusOutcome \in {"non2xx", "neterr", "badbody"}

\* C8: a failed status request (non-2xx, transport error, unreadable body)
\* stores the degraded default, shows no notification and init renders all
\* the same; status resolution always ends with a non-null calendarStatus.
C8_StatusDegrades ==
    /\ phase = "ready" => calendarStatus # Null
    /\ StatusFailed =>
           /\ phase = "ready"
           /\ calendarStatus = Status(FALSE, "traditional")
           /\ notifications = <<>>
           /\ (containerPresent => view = "signin")

\* The body of a 2xx status response could not be read and the sign-in
\* document is on display.
C8_Witness ==
    /\ statusOutcome = "badbody"
    /\ calendarStatus = Status(FALSE, "traditional")
    /\ view = "signin"

\* C9: once an event fetch was answered with 403, no tick of the interval
\* sends another request.
C9_NoFetchAfterDenied ==
    [][(denied /\ Tick) => fetchCount' = fetchCount]_vars

\* C10: a prev/next navigation changes only the reference month: it sends no
\* request and leaves events and isLoading as they were.
C10_NavigateNoFetch ==
    [][\A direction \in {-1, 1} :
          ClickNavigate(direction) =>
              UNCHANGED <<fetchCount, inflight, events, isLoading>>]_vars


\* The list a 2xx response with a readable body carries.
CarriedList(answer) ==
    IF answer.body.k = "events" THEN answer.body.events ELSE <<>>

\* C11: after a successful event fetch, events is exactly the list that
\* response carried (the empty list when it carried none), whatever events
\* held before: no fetch settles with a readable 2xx answer and leaves events
\* different from the list of that answer.
C11_EventsReplaced ==
    [][\A answer \in Answers :
          (answer.code = "ok" /\ answer.body.k # "unreadable"
               /\ events' # CarriedList(answer)) =>
              \A i \in 1..Len(inflight) : ~Settle(i, answer)]_vars

\* A successful response carrying no events has emptied a list that held
\* events: the grid on display was still built from the list it replaced.
C11_Witness ==
    /\ events = <<>>
    /\ notifications = <<UpdatedNote>>
    /\ view = "calendar"
    /\ grid.events # <<>>

\* C12: when the root container is absent the widget does not initialize:
\* nothing is rendered, no event request is sent and the interval is not armed.
C12_NoContainerNoWidget ==
    ~containerPresent =>
        /\ view = "none"
        /\ fetchCount = 0
        /\ refreshInterval = Null
        /\ ~timerActive

\* C13: responses are stored in the order they arrive: events is the list of
\* the 2xx response that arrived last, also when that response answers a
\* request sent before one whose response had been stored already.
C13_LastArrivalWins ==
    arrived # Null => events = arrived.events

\* The response that arrived last was late, it carried events, and it is the
\* list on hand.
C13_Witness ==
    /\ arrived # Null
    /\ arrived.late
    /\ arrived.events # <<>>
    /\ events = arrived.events

\* The notification the claim names for an answer.
ClaimedNote(answer) ==
    CASE answer.code = "ok" /\ answer.body.k # "unreadable" ->
             Notification("Calendar events updated", "success")
      [] answer.code = "403" /\ answer.body.k = "error" ->
             Notification(answer.body.error, "error")
      [] answer.code = "403" /\ answer.body.k = "noError" ->
             Notification("Calendar access denied", "error")
      [] OTHER -> Notification("Failed to load calendar events", "error")

\* C14: every event fetch that was sent and has settled showed exactly one
\* notification, the one its answer calls for; nothing else shows one, so a
\* fetch that was skipped for lack of access shows none.  No fetch settles
\* with an answer and leaves on view another notification than the one the
\* claim names for that answer.
C14_OneNotificationPerFetch ==
    /\ [](shownCount = fetchCount - Len(inflight))
    /\ [][\A answer \in Answers :
              notifications' # <<ClaimedNote(answer)>> =>
                  \A i \in 1..Len(inflight) : ~Settle(i, answer)]_vars

\* Two fetches have settled, the last one denied without an error text, and two
\* notifications were shown.
C14_Witness ==
    /\ shownCount = 2
    /\ fetchCount = 2
    /\ inflight = <<>>
    /\ notifications = <<Notification("Calendar access denied", "error")>>

\* The events the rendered upcoming list shows.
ListedEvents == IF listing.k = "items" THEN listing.items ELSE <<>>

\* Each event of the list with the clock reading it was examined at.
Examined == [i \in 1..Len(events) |-> [e |-> events[i], now |-> clock[i]]]

\* The event has a start instant, as the normalizer is specified to resolve
\* it, and it is not before the reading.
NotBeforeNow(p) ==
    /\ ClaimedStart(p.e) # Null
    /\ ClaimedStart(p.e).time >= p.now

\* The same with the start instant getEventStartDate computes.
ComputedNotBeforeNow(p) ==
    /\ getEventStartDate(p.e) # Null
    /\ getEventStartDate(p.e).time >= p.now

\* a is b with some elements left out.
RECURSIVE IsSubsequence(_, _)
IsSubsequence(a, b) ==
    \/ a = <<>>
    \/ /\ b # <<>>
       /\ IF Head(a) = Head(b) THEN IsSubsequence(Tail(a), Tail(b))
          ELSE IsSubsequence(a, Tail(b))

\* The first 5 of a sequence of examined events.
FirstFive(chosen) ==
    [i \in 1..(IF Len(chosen) < 5 THEN Len(chosen) ELSE 5) |-> chosen[i].e]

\* C15: the upcoming list is the first 5 events, in the order of the fetched
\* list, among those with a start instant that is not before now: it has at
\* most 5 entries, none without a start instant or starting before the
\* rendering began, and it keeps the order of the fetched list.
C15_UpcomingFirstFive ==
    listing # Null =>
        /\ ListedEvents = FirstFive(SelectSeq(Examined, NotBeforeNow))
        /\ Len(ListedEvents) <= 5
        /\ \A i \in 1..Len(ListedEvents) :
               /\ ClaimedStart(ListedEvents[i]) # Null
               /\ ClaimedStart(ListedEvents[i]).time >= clock[1]
        /\ IsSubsequence(ListedEvents, events)

\* What the list does satisfy: the same with the start instants that
\* getEventStartDate computes, which are null for a nested start.
UpcomingOfComputedStarts ==
    listing # Null =>
        /\ ListedEvents = FirstFive(SelectSeq(Examined, ComputedNotBeforeNow))
        /\ Len(ListedEvents) <= 5
        /\ \A i \in 1..Len(ListedEvents) :
               /\ getEventStartDate(ListedEvents[i]) # Null
               /\ getEventStartDate(ListedEvents[i]).time >= clock[1]
        /\ IsSubsequence(ListedEvents, events)

\* C16: whenever no event passes the filter, also when events were fetched
\* but all are past or without a start, the region shows the placeholder
\* "No upcoming events".
C16_EmptyShowsPlaceholder ==
    (listing # Null /\ ListedEvents = <<>>) => listing = Placeholder

\* The day, counted from the epoch, of an instant on the viewer's calendar.
LocalDay(instant, zone) == (instant + zone) \div 24

\* The events whose start instant, as the normalizer is specified to resolve
\* it, falls on the local date.
EventsOn(date) ==
    LET day == DayNumber(date)
    IN  SelectSeq(events, LAMBDA e :
            /\ ClaimedStart(e) # Null
            /\ LocalDay(ClaimedStart(e).time, tz) = day)

\* C17: for every viewer zone an event is on the grid cell whose local
\* calendar date is the local date of the event's start instant, and the
\* cell's data-date is that local date.
C17_LocalDatePlacement ==
    cells # Null =>
        \A n \in 1..Len(cells) :
            /\ cells[n].events = EventsOn(cells[n].date)
            /\ cells[n].key = DateText(DayNumber(cells[n].date))

\* C18: for every reference month the grid has exactly 42 cells of 42
\* consecutive calendar dates, the first the Sunday on or before the 1st of
\* the month, so every day of the month is in the grid exactly once.
C18_SixWeeksFromSunday ==
    cells # Null =>
        LET first == [y |-> currentDate.y, m |-> currentDate.m, d |-> 1]
            day(n) == DayNumber(cells[n].date)
        IN  /\ Len(cells) = 42
            /\ \A n \in 1..Len(cells) :
                   cells[n].date.d \in 1..DaysInMonth(cells[n].date.y, cells[n].date.m)
            /\ \A n \in 1..(Len(cells) - 1) : day(n + 1) = day(n) + 1
            /\ (day(1) + 4) % 7 = 0
            /\ day(1) <= DayNumber(first) /\ DayNumber(first) < day(1) + 7
            /\ \A d \in 1..DaysInMonth(first.y, first.m) :
                   Cardinality({n \in 1..Len(cells) :
                                   cells[n].date = [first EXCEPT !.d = d]}) = 1

\* The grid of February 2024: it starts on Sunday 28 January and holds the
\* 29th of February.
C18_Witness ==
    /\ cells # Null
    /\ currentDate.y = 2024 /\ currentDate.m = 1
    /\ cells[1].date = [y |-> 2024, m |-> 0, d |-> 28]
    /\ \E n \in 1..Len(cells) : cells[n].date = [y |-> 2024, m |-> 1, d |-> 29]

\* C19: a click on a day cell opens a modal exactly when the day has an
\* event, the modal listing exactly the events of the cell's date; a click on
\* a day without events changes nothing.
C19_ClickOpensDayModal ==
    [][\A n \in 1..totalDays :
          DayClick(n) =>
              LET dayEvents == EventsOn(cells[n].date)
              IN  IF dayEvents # <<>>
                  THEN Len(modal') = 1 /\ modal'[1].events = dayEvents
                  ELSE UNCHANGED vars]_vars

\* What a click does satisfy: the modal opens exactly when the clicked cell
\* was given events, and lists those.
ClickShowsCellEvents ==
    [][\A n \in 1..totalDays :
          DayClick(n) =>
              IF cells[n].events # <<>>
              THEN modal' = <<[date |-> cells[n].key, events |-> cells[n].events]>>
              ELSE UNCHANGED vars]_vars

\* The message with this number is in the document.
Displayed(id) == id \in Ids(noteElements) \cup Ids(toasts)

\* The duration of the message has passed: its first timer has fired.
Expired(id) ==
    \/ \E k \in 1..Len(noteElements) :
          noteElements[k].id = id /\ noteElements[k].phase = "fading"
    \/ \E k \in 1..Len(toasts) : toasts[k].id = id /\ toasts[k].phase = "fading"

\* C20: every message emitted, notification or toast, is eventually removed,
\* whatever other messages are emitted or removed meanwhile, and none leaves
\* the document before its own duration has passed.
C20_MessagesExpire ==
    /\ \A id \in 1..MaxMessages : Displayed(id) ~> ~Displayed(id)
    /\ [][\A id \in 1..MaxMessages :
              (Displayed(id) /\ ~Displayed(id)') => Expired(id)]_vars

\* Three messages were emitted, notifications and a toast; the first is gone
\* and the later ones are still displayed.
C20_Witness ==
    /\ emitted = 3
    /\ ~Displayed(1)
    /\ Displayed(2) /\ Displayed(3)
    /\ noteElements # <<>> /\ toasts # <<>>

\* C21: a manual refresh is one fetch followed by one full re-render: a click
\* on the refresh control sends exactly one request to the events endpoint,
\* and when that request has settled, with its one notification, the render
\* follows without another request.
C21_RefreshFetchesOnce ==
    [][/\ ClickRefresh => fetchCount' = fetchCount + 1
       /\ fetchCount' # fetchCount =>
              \A i \in 1..Len(inflight), answer \in Answers :
                  inflight[i].cont = "refresh" => ~Settle(i, answer)]_vars

\* C23: after any interleaving of ticks and navigations the month in the
\* calendar header is the month whose days fill the grid.
C23_HeaderMonthIsGridMonth ==
    (view = "calendar" /\ header # Null /\ grid # Null) =>
        (header.y = grid.y /\ header.m = grid.m)

\* C24: after any interleaving of showToast calls and expiry callbacks the
\* toast container exists exactly when some toast has not been removed yet,
\* every live toast is a child of the current container, and no expiry
\* callback has run against a null container.
C24_ContainerTracksToasts ==
    /\ Truthy(toastContainer) <=> toasts # <<>>
    /\ \A k \in 1..Len(toasts) :
          Truthy(toastContainer) /\ toasts[k].parent = toastContainer.id
    /\ ~toastError

\* The first toast has been removed by its expiry callback while a later toast
\* is still in the container the first one created.
C24_Witness ==
    /\ Truthy(toastContainer)
    /\ toastContainer.id = 1
    /\ Len(toasts) = 1
    /\ toasts[1].id > 1
    /\ fadeQueue = <<>>

\* The list of the fetch-then-render sequence that request i ends, when the
\* request settles with `answer`: the list this answer carries when it is a
\* success, otherwise the list an earlier fetch of the sequence stored.
OwnList(i, answer) ==
    IF outcomeOf(answer) = "success"
    THEN [ok |-> TRUE, events |-> CarriedList(answer)]
    ELSE inflight[i].fetched

\* C22: within one fetch-then-render sequence (renderCalendar, a manual
\* refresh, a periodic tick) the markup rendered after a successful fetch of
\* the sequence is built from that fetch's list, whatever other fetches are
\* in flight: no sequence ends by rendering a grid built from another list.
C22_RenderShowsOwnFetch ==
    [][\A i \in 1..Len(inflight), answer \in Answers :
          (/\ inflight[i].cont \in {"render", "tick"}
           /\ OwnList(i, answer).ok
           /\ grid' # Null
           /\ grid'.events # OwnList(i, answer).events) =>
              ~Settle(i, answer)]_vars

\* The part of C22 about the fetch a render directly follows: a render or a
\* partial re-render that follows a successful fetch shows that fetch's list.
RenderShowsPrecedingFetch ==
    [][\A i \in 1..Len(inflight), answer \in Answers :
          (/\ inflight[i].cont \in {"render", "tick"}
           /\ outcomeOf(answer) = "success"
           /\ grid' # Null
           /\ grid'.events # CarriedList(answer)) =>
              ~Settle(i, answer)]_vars

====
